---- MODULE Spec2Model ----
(***************************************************************************)
(* A model of package dyn (src/dyn.go): the late-binding primitives Apply, *)
(* Find/At, Send, Equal/EqualNonComparable and Compare over dynamic Go     *)
(* values.  A dynamic value is a record carrying its reflect.Kind (k), its *)
(* dynamic type (ty and the method set ov) and the payload of its kind.    *)
(* Every primitive is an operator computing the outcome of one call (a     *)
(* return or a panic) together with the log of the capability methods it   *)
(* invoked; the state machine performs one call at a time.                 *)
(***************************************************************************)
EXTENDS Integers, Sequences, FiniteSets, TLC

VARIABLES pc, op, target, args, result, calls

vars == <<pc, op, target, args, result, calls>>

(* ------------------------------ bounds --------------------------------- *)

\* integers of the universe are -MaxInt..MaxInt
MaxInt == 2
\* string bytes are 1..MaxChar, strings have at most MaxStrLen bytes
MaxChar == 2
MaxStrLen == 2
\* slices of the universe have at most MaxLen elements
MaxLen == 2
\* argument lists have at most MaxArgs elements
MaxArgs == 2
\* a Comparer may answer any int in -MaxCmp..MaxCmp
MaxCmp == 2
\* Compose is given at most MaxStages functions
MaxStages == 3

(* --------------------------- dynamic values ---------------------------- *)

SeqUpTo(S, n) == UNION {[1..m -> S] : m \in 0..n}

\* the nil interface value: no type, no methods
NilV == [k |-> "nil"]

\* the method set of a type without capability methods
NoOv ==
  [caps |-> {}, applyAns |-> NilV, findAns |-> NilV, findOk |-> FALSE,
   recvAns |-> NilV, eqAns |-> FALSE, cmpAns |-> 0, meth |-> {}]

IntV(t, n) == [k |-> t, ty |-> t, ov |-> NoOv, n |-> n]
StrV(s) == [k |-> "string", ty |-> "string", ov |-> NoOv, s |-> s]
BoolV(b) == [k |-> "bool", ty |-> "bool", ov |-> NoOv, b |-> b]
SliceV(t, es) == [k |-> "slice", ty |-> t, ov |-> NoOv, elems |-> es]
MapV(f) == [k |-> "map", ty |-> "map[string]interface {}", ov |-> NoOv, m |-> f]
StructV(t, fs) == [k |-> "struct", ty |-> t, ov |-> NoOv, fields |-> fs]
PtrV(a, e) == [k |-> "ptr", ty |-> "ptr", ov |-> NoOv, addr |-> a, elem |-> e]
FuncV(sig, f) == [k |-> "func", ty |-> sig, ov |-> NoOv, fid |-> f]

\* a value of a named type whose method set is o, over the representation b
WithOv(b, o) == [b EXCEPT !.ty = "named", !.ov = o]

\* Tuple is the named slice type of multiple return values
Tuple(outs) == SliceV("Tuple", outs)

Field(name, exported, val) == [name |-> name, exported |-> exported, val |-> val]

IsNil(v) == v.k = "nil"

\* v's dynamic type implements the capability interface cap
Implements(v, cap) == ~IsNil(v) /\ cap \in v.ov.caps

\* reflect.Type.Comparable of v's dynamic type
Comparable(v) == v.k \notin {"slice", "map", "func"}

\* the dynamic type of a non-nil value
TypeOf(v) == <<v.k, v.ty, v.ov>>

\* Go's == on two interface values: "true", "false", or "panic" when both
\* hold the same non-comparable dynamic type
IfaceEq(one, two) ==
  IF IsNil(one) \/ IsNil(two) THEN (IF IsNil(one) /\ IsNil(two) THEN "true" ELSE "false")
  ELSE IF TypeOf(one) # TypeOf(two) THEN "false"
  ELSE IF ~Comparable(one) THEN "panic"
  ELSE IF one = two THEN "true" ELSE "false"

(* ------------------------------ outcomes ------------------------------- *)

Ret(v) == [t |-> "ret", v |-> v]
RetFind(v, ok) == [t |-> "ret", v |-> v, ok |-> ok]
RetBool(b) == [t |-> "ret", b |-> b]
RetInt(n) == [t |-> "ret", n |-> n]
Panic(e) == [t |-> "panic", e |-> e]
RuntimeError(what) == [err |-> "runtime", what |-> what]
ErrorsNew(what) == [err |-> "errors.New", what |-> what]

\* the outcome of a call together with the capability methods it invoked
Done(out, log) == [out |-> out, calls |-> log]
Invoke(method, recv, as) == [method |-> method, recv |-> recv, args |-> as]

(* ------------------- capability methods of user types ------------------ *)

\* what the methods of a value's dynamic type answer: the method set ov of
\* the value holds the answer of each capability method it implements
ApplierApply(v, as) == v.ov.applyAns
FinderFind(v, selector) == RetFind(v.ov.findAns, v.ov.findOk)
ReceiverReceive(v, message) == v.ov.recvAns
EqualerEqual(v, other) == v.ov.eqAns
ComparerCompare(v, other) == v.ov.cmpAns

(* ------------------------------- Compare ------------------------------- *)

\* the types of the type switch of Compare, in the order of its cases
NativeOrdered ==
  {"uint", "uint8", "uint16", "uint32", "uint64", "int", "int8", "int16",
   "int32", "int64", "float32", "float64", "string"}

\* Go's < on two strings: bytewise lexicographic order
StrLess(s, t) ==
  \E i \in 1..Len(t) :
    /\ \A j \in 1..(i - 1) : j <= Len(s) /\ s[j] = t[j]
    /\ (i > Len(s) \/ s[i] < t[i])

\* Go's < on two values of the same natively ordered type
NativeLess(v1, v2) ==
  IF v1.ty = "string" THEN StrLess(v1.s, v2.s) ELSE v1.n < v2.n

\* the switch with its first two cases exchanged
ThreeWayInverted(v1, v2) ==
  IF NativeLess(v1, v2) THEN 1 ELSE IF NativeLess(v2, v1) THEN -1 ELSE 0

\* comparing numbers by subtraction instead of the switch
ThreeWayBySubtraction(v1, v2) ==
  IF v1.ty = "string"
  THEN (IF NativeLess(v1, v2) THEN -1 ELSE IF NativeLess(v2, v1) THEN 1 ELSE 0)
  ELSE v1.n - v2.n

\* the switch of each native case of Compare
ThreeWay(v1, v2) ==
  IF NativeLess(v1, v2) THEN -1 ELSE IF NativeLess(v2, v1) THEN 1 ELSE 0

Compare(one, two) ==
  LET eq == IfaceEq(one, two) IN
  IF eq = "panic" THEN Done(Panic(RuntimeError("comparing uncomparable type")), <<>>)
  ELSE IF eq = "true" THEN Done(RetInt(0), <<>>)
  ELSE IF IsNil(one) THEN Done(RetInt(-1), <<>>)
  ELSE IF IsNil(two) THEN Done(RetInt(1), <<>>)
  ELSE IF one.ty \in NativeOrdered THEN
    IF two.ty # one.ty
    THEN Done(Panic(RuntimeError("interface conversion")), <<>>)
    ELSE Done(RetInt(ThreeWay(one, two)), <<>>)
  ELSE IF Implements(one, "Comparer")
  THEN Done(RetInt(ComparerCompare(one, two)), <<Invoke("Compare", one, <<two>>)>>)
  ELSE Done(Panic(RuntimeError("interface conversion")), <<>>)

(* ------------------------------- Equal --------------------------------- *)

\* Equal that asks the right operand before the left one
EqualRightFirst(one, two) ==
  IF Implements(two, "Equaler")
  THEN Done(RetBool(EqualerEqual(two, one)), <<Invoke("Equal", two, <<one>>)>>)
  ELSE IF Implements(one, "Equaler")
  THEN Done(RetBool(EqualerEqual(one, two)), <<Invoke("Equal", one, <<two>>)>>)
  ELSE LET eq == IfaceEq(one, two) IN
    IF eq = "panic"
    THEN Done(Panic(RuntimeError("comparing uncomparable type")), <<>>)
    ELSE Done(RetBool(eq = "true"), <<>>)

Equal(one, two) ==
  IF Implements(one, "Equaler")
  THEN Done(RetBool(EqualerEqual(one, two)), <<Invoke("Equal", one, <<two>>)>>)
  ELSE IF Implements(two, "Equaler")
  THEN Done(RetBool(EqualerEqual(two, one)), <<Invoke("Equal", two, <<one>>)>>)
  ELSE LET eq == IfaceEq(one, two) IN
    IF eq = "panic"
    THEN Done(Panic(RuntimeError("comparing uncomparable type")), <<>>)
    ELSE Done(RetBool(eq = "true"), <<>>)

EqualNonComparable(one, two) ==
  IF /\ ~Implements(one, "Equaler")
     /\ \/ ~IsNil(one) /\ ~Comparable(one)
        \/ ~IsNil(two) /\ ~Comparable(two)
  THEN Done(RetBool(FALSE), <<>>)
  ELSE Equal(one, two)

(* ------------------------------ Find / At ------------------------------ *)

\* reflect.Value.Interface on a struct field: panics on an unexported field
FieldInterface(f) ==
  IF f.exported THEN RetFind(f.val, TRUE)
  ELSE Panic(RuntimeError("reflect: unexported field"))

\* sliceIndex without the check for a negative index: reflect's Index panics
sliceIndexNoNegative(objv, idx) ==
  IF idx < 0 THEN Panic(RuntimeError("reflect: slice index out of range"))
  ELSE IF idx >= Len(objv.elems) THEN RetFind(NilV, FALSE)
  ELSE RetFind(objv.elems[idx + 1], TRUE)

\* the slice case of findReflect once the selector is an int
sliceIndex(objv, idx) ==
  IF idx < 0 \/ idx >= Len(objv.elems)
  THEN RetFind(NilV, FALSE)
  ELSE RetFind(objv.elems[idx + 1], TRUE)

\* the reflect.Value that holds nothing (reflect.ValueOf(nil))
InvalidV == [k |-> "invalid"]

\* Elem that gives nothing when what the pointer points to is again a pointer
ElemOnce(objv) == IF objv.elem.k = "ptr" THEN InvalidV ELSE objv.elem

\* objv.Elem() of a pointer
Elem(objv) == objv.elem

RECURSIVE findReflect(_, _)
findReflect(objv, selector) ==
  CASE objv.k = "struct" ->
         IF ~IsNil(selector) /\ selector.ty = "int" THEN
           IF selector.n < 0 \/ selector.n >= Len(objv.fields)
           THEN RetFind(NilV, FALSE)
           ELSE FieldInterface(objv.fields[selector.n + 1])
         ELSE IF ~IsNil(selector) /\ selector.ty = "string" THEN
           LET hit == {i \in 1..Len(objv.fields) : objv.fields[i].name = selector.s} IN
           IF hit = {} THEN RetFind(NilV, FALSE)
           ELSE FieldInterface(objv.fields[CHOOSE i \in hit : TRUE])
         ELSE Panic(ErrorsNew("structs can only be referenced by index or name"))
    [] objv.k = "map" ->
         IF IsNil(selector) \/ selector.ty # "string"
         THEN Panic(RuntimeError("reflect: MapIndex key type"))
         ELSE IF selector \notin DOMAIN objv.m THEN RetFind(NilV, FALSE)
         ELSE RetFind(objv.m[selector], TRUE)
    [] objv.k = "slice" ->
         IF IsNil(selector) \/ selector.ty # "int"
         THEN Panic(RuntimeError("interface conversion"))
         ELSE sliceIndex(objv, selector.n)
    [] objv.k = "ptr" -> findReflect(Elem(objv), selector)
    [] OTHER -> Panic(ErrorsNew("Find passed a non associative type"))

Find(assocObj, selector) ==
  IF Implements(assocObj, "Finder")
  THEN Done(FinderFind(assocObj, selector), <<Invoke("Find", assocObj, <<selector>>)>>)
  ELSE Done(findReflect(assocObj, selector), <<>>)

\* At that answers nil itself whenever Find reports not found
AtNilWhenAbsent(assocObj, selector) ==
  LET r == Find(assocObj, selector) IN
  IF r.out.t = "ret"
  THEN Done(Ret(IF r.out.ok THEN r.out.v ELSE NilV), r.calls)
  ELSE r

At(assocObj, selector) ==
  LET r == Find(assocObj, selector) IN
  IF r.out.t = "ret" THEN Done(Ret(r.out.v), r.calls) ELSE r

(* -------------------------------- Apply -------------------------------- *)

\* the plain Go functions of the universe, by name: the kinds of their
\* formal parameters (the last one a ...interface{} when variadic) and what
\* a call returns.  The two closures Compose returns are "identity" and
\* "composed"; a composed closure holds the functions it was made from.
FuncIds ==
  {"noret", "square", "pair", "sum3", "ident", "double", "takeTwo", "count", "rcvrString"}

FuncIn(fid) ==
  CASE fid = "noret" -> <<"int">>
    [] fid = "square" -> <<"int">>
    [] fid = "pair" -> <<"int">>
    [] fid = "sum3" -> <<"int", "int">>
    [] fid = "ident" -> <<"interface">>
    [] fid = "double" -> <<"interface">>
    [] fid = "takeTwo" -> <<"int", "int">>
    [] fid = "count" -> <<"slice">>
    [] fid = "rcvrString" -> <<>>
    [] fid = "identity" -> <<"interface">>
    [] fid = "composed" -> <<"interface">>

IsVariadic(fid) == fid = "count"

\* the values returned by the call fid(a...) in Go
FuncBody(fid, a) ==
  CASE fid = "noret" -> <<>>
    [] fid = "square" -> <<IntV("int", a[1].n * a[1].n)>>
    [] fid = "pair" -> <<IntV("int", a[1].n), IntV("int", a[1].n + 1)>>
    [] fid = "sum3" -> <<IntV("int", a[1].n), IntV("int", a[2].n), IntV("int", a[1].n + a[2].n)>>
    [] fid = "ident" -> <<a[1]>>
    [] fid = "double" -> <<a[1], a[1]>>
    [] fid = "takeTwo" -> <<BoolV(a[1].n = a[2].n)>>
    [] fid = "count" -> <<IntV("int", Len(a))>>
    [] fid = "rcvrString" -> <<StrV(<<1, 2>>)>>
    [] fid = "identity" -> <<a[1]>>

\* the Go type of each function: its signature
FuncType(fid) ==
  CASE fid = "noret" -> "func(int)"
    [] fid = "square" -> "func(int) int"
    [] fid = "pair" -> "func(int) (int, int)"
    [] fid = "sum3" -> "func(int, int) (int, int, int)"
    [] fid = "ident" -> "func(interface {}) interface {}"
    [] fid = "double" -> "func(interface {}) (interface {}, interface {})"
    [] fid = "takeTwo" -> "func(int, int) bool"
    [] fid = "count" -> "func(...interface {}) int"
    [] fid = "rcvrString" -> "func() string"
    [] fid = "identity" -> "func(interface {}) interface {}"
    [] fid = "composed" -> "func(interface {}) interface {}"

Func(fid) == FuncV(FuncType(fid), fid)

\* parameter kinds for which a nil argument becomes the zero value of the type
NilableKinds == {"chan", "func", "interface", "map", "ptr", "slice"}

\* reflect.Zero of a parameter type of the universe, by kind
Zero(kind) == IF kind = "slice" THEN SliceV("[]interface {}", <<>>) ELSE NilV

\* a valid reflect.Value v is assignable to a parameter of this kind
AssignableTo(v, kind) ==
  /\ v.k # "invalid"
  /\ kind = "interface" \/ (~IsNil(v) /\ v.ty = kind)

\* reflect.Value.Call accepts argvs: the arity matches and every argument is
\* assignable to its parameter, the trailing ones to the variadic element
CallAccepts(fid, argvs) ==
  LET n == Len(FuncIn(fid)) IN
  IF IsVariadic(fid)
  THEN /\ Len(argvs) >= n - 1
       /\ \A i \in 1..(n - 1) : AssignableTo(argvs[i], FuncIn(fid)[i])
       /\ \A i \in n..Len(argvs) : AssignableTo(argvs[i], "interface")
  ELSE /\ Len(argvs) = n
       /\ \A i \in 1..n : AssignableTo(argvs[i], FuncIn(fid)[i])

\* the loop of apply that turns the arguments into reflect.Values: a nil
\* argument asks the function type for its i-th parameter
argvsOf(fnv, as) ==
  IF \E i \in 1..Len(as) :
       IsNil(as[i]) /\ (fnv.k # "func" \/ i > Len(FuncIn(fnv.fid)))
  THEN Panic(RuntimeError("reflect: In of non-func type or out of range"))
  ELSE Ret([i \in 1..Len(as) |->
             IF IsNil(as[i])
             THEN (IF FuncIn(fnv.fid)[i] \in NilableKinds
                   THEN Zero(FuncIn(fnv.fid)[i]) ELSE InvalidV)
             ELSE as[i]])

\* the switch of apply on the number of values the call returned
outsOf(outvs) ==
  CASE Len(outvs) = 0 -> Ret(NilV)
    [] Len(outvs) = 1 -> Ret(outvs[1])
    [] OTHER -> Ret(Tuple(outvs))

\* the closures returned by Compose: the identity for no functions, and
\* otherwise a closure over fns
ComposedV(fns) ==
  [k |-> "func", ty |-> FuncType("composed"), ov |-> NoOv, fid |-> "composed", fns |-> fns]

Compose(fns) == IF Len(fns) = 0 THEN Func("identity") ELSE ComposedV(fns)

\* newArg is a Tuple: the first case of the type switch of the closure
IsTuple(v) == ~IsNil(v) /\ v.ty = "Tuple"

RECURSIVE Apply(_, _), apply(_, _), composed(_, _)

\* the body of the closure Compose returns for a non-empty fns, called with x
composed(fns, x) ==
  LET newArg == Apply(Compose(Tail(fns)), <<x>>) IN
  IF newArg.out.t = "panic" THEN newArg
  ELSE
    LET arg == newArg.out.v
        r == IF IsTuple(arg) THEN Apply(fns[1], arg.elems) ELSE Apply(fns[1], <<arg>>)
    IN Done(r.out, newArg.calls \o r.calls)

apply(fnv, as) ==
  IF IsNil(fnv) THEN Done(Panic(RuntimeError("reflect: Type of zero Value")), <<>>)
  ELSE IF fnv.k \in {"map", "slice", "struct"} THEN
    IF as = <<>> THEN Done(Panic(RuntimeError("index out of range")), <<>>)
    ELSE LET r == findReflect(fnv, as[1]) IN
         Done(IF r.t = "ret" THEN Ret(r.v) ELSE r, <<>>)
  ELSE
    LET argvs == argvsOf(fnv, as) IN
    IF argvs.t = "panic" THEN Done(argvs, <<>>)
    ELSE IF fnv.k # "func"
    THEN Done(Panic(RuntimeError("reflect: call of non-function")), <<>>)
    ELSE IF ~CallAccepts(fnv.fid, argvs.v)
    THEN Done(Panic(RuntimeError("reflect: Call")), <<>>)
    ELSE IF fnv.fid = "composed" THEN
      LET r == composed(fnv.fns, argvs.v[1]) IN
      IF r.out.t = "panic" THEN r ELSE Done(outsOf(<<r.out.v>>), r.calls)
    ELSE Done(outsOf(FuncBody(fnv.fid, argvs.v)), <<>>)

Apply(f, as) ==
  IF Implements(f, "Applier")
  THEN Done(Ret(ApplierApply(f, as)), <<Invoke("Apply", f, as)>>)
  ELSE apply(f, as)

(* -------------------------------- Send --------------------------------- *)

DoesNotUnderstand(o, message) ==
  [err |-> "ErrDoesNotUnderstand", o |-> o, message |-> message]

\* reflect.Value.MethodByName on a valid value: the bound methods named name
MethodByName(rcvr, name) == {mt \in rcvr.ov.meth : mt.name = name}

Send(rcvr, message) ==
  IF Implements(rcvr, "MessageReceiver")
  THEN Done(Ret(ReceiverReceive(rcvr, message)), <<Invoke("Receive", rcvr, message)>>)
  ELSE IF message = <<>> THEN Done(Panic(RuntimeError("index out of range")), <<>>)
  ELSE IF IsNil(message[1]) \/ message[1].ty # "string"
  THEN Done(Panic(RuntimeError("interface conversion")), <<>>)
  ELSE IF IsNil(rcvr)
  THEN Done(Panic(RuntimeError("reflect: MethodByName on zero Value")), <<>>)
  ELSE LET method == MethodByName(rcvr, message[1].s) IN
    IF method = {} THEN Done(Panic(DoesNotUnderstand(rcvr, message)), <<>>)
    ELSE apply(Func((CHOOSE mt \in method : TRUE).fid), Tail(message))

(* ----------------------------- the universe ---------------------------- *)

Strings == SeqUpTo(1..MaxChar, MaxStrLen)

Ints == {IntV("int", n) : n \in (0 - MaxInt)..MaxInt} \cup {IntV("uint8", n) : n \in 0..MaxInt}
Strs == {StrV(s) : s \in Strings}

\* what containers hold
Elems == {IntV("int", 1), StrV(<<1>>)}

Slices == {SliceV("[]interface {}", es) : es \in SeqUpTo(Elems, MaxLen)}
Tuples == {Tuple(<<IntV("int", 0), IntV("int", 1)>>)}

Keys == {StrV(<<1>>), StrV(<<2>>)}
Maps == {MapV(f) : f \in UNION {[D -> Elems] : D \in SUBSET Keys}}

Structs ==
  { StructV("empty", <<>>),
    StructV("example", <<Field(<<1>>, TRUE, StrV(<<1>>)), Field(<<2>>, TRUE, IntV("int", 1))>>),
    StructV("example", <<Field(<<1>>, TRUE, StrV(<<2>>)), Field(<<2>>, TRUE, IntV("int", 0))>>),
    StructV("hidden", <<Field(<<1>>, FALSE, IntV("int", 1))>>) }

TheSlice == SliceV("[]interface {}", <<IntV("int", 1), StrV(<<1>>)>>)
TheStruct == StructV("example", <<Field(<<1>>, TRUE, StrV(<<1>>)), Field(<<2>>, TRUE, IntV("int", 1))>>)
TheMap == MapV([key \in {StrV(<<1>>)} |-> IntV("int", 1)])

\* pointers: the nil pointer, pointers to containers, a pointer to a pointer
\* and a pointer to that
NilPtr == PtrV(0, InvalidV)
Ptrs ==
  { NilPtr, PtrV(1, TheSlice), PtrV(2, TheStruct), PtrV(3, TheMap),
    PtrV(4, PtrV(1, TheSlice)), PtrV(5, PtrV(4, PtrV(1, TheSlice))),
    PtrV(6, PtrV(2, TheStruct)), PtrV(7, NilPtr) }

Funcs == {Func(fid) : fid \in FuncIds \ {"rcvrString"}}

\* the method sets of the user types of the universe
Appliers == {[NoOv EXCEPT !.caps = {"Applier"}, !.applyAns = v] : v \in {NilV, IntV("int", 0)}}
Finders ==
  {[NoOv EXCEPT !.caps = {"Finder"}, !.findAns = v, !.findOk = ok] :
     v \in {NilV, IntV("int", 0)}, ok \in BOOLEAN}
Receivers == {[NoOv EXCEPT !.caps = {"MessageReceiver"}, !.recvAns = IntV("int", 0)]}
Equalers == {[NoOv EXCEPT !.caps = {"Equaler"}, !.eqAns = b] : b \in BOOLEAN}
Comparers == {[NoOv EXCEPT !.caps = {"Comparer"}, !.cmpAns = c] : c \in (0 - MaxCmp)..MaxCmp}
WithMethods == {[NoOv EXCEPT !.meth = {[name |-> <<1>>, fid |-> "rcvrString"], [name |-> <<2>>, fid |-> "square"]}]}

Overrides == Appliers \cup Finders \cup Receivers \cup Equalers \cup Comparers \cup WithMethods

\* the representations of the user types
Bases == {IntV("int", 1), TheSlice, TheStruct, Func("square")}

Users == {WithOv(b, o) : b \in Bases, o \in Overrides}

Values ==
  {NilV} \cup Ints \cup Strs \cup Slices \cup Tuples \cup Maps \cup Structs
         \cup Ptrs \cup Funcs \cup Users

ArgVals == {NilV, StrV(<<1>>), StrV(<<2>>)} \cup {IntV("int", n) : n \in (0 - MaxInt)..MaxInt}
ArgLists == SeqUpTo(ArgVals, MaxArgs)

Selectors == {NilV} \cup Ints \cup Strs

MsgSelectors == {StrV(<<1>>), StrV(<<2>>), StrV(<<1, 1>>), IntV("int", 0), NilV}
Messages ==
  {<<>>} \cup {<<sel>> \o as : sel \in MsgSelectors, as \in SeqUpTo({NilV, IntV("int", 1)}, MaxArgs)}

\* what Compose is given: functions, a container and an Applier, in flat
\* lists and in the two nestings of three of them
Stages ==
  Funcs \cup {TheSlice, WithOv(TheStruct, [NoOv EXCEPT !.caps = {"Applier"}, !.applyAns = IntV("int", 0)])}
FlatLists == SeqUpTo(Stages, MaxStages)
NestedLists ==
  {<<Compose(<<f, g>>), h>> : f \in Stages, g \in Stages, h \in Stages}
    \cup {<<f, Compose(<<g, h>>)>> : f \in Stages, g \in Stages, h \in Stages}
ComposeLists == FlatLists \cup NestedLists

\* what a composed function is applied to
ComposeInputs == {NilV, IntV("int", 0), IntV("int", 1), StrV(<<1>>)} \cup Tuples

(* --------------------------- the state machine ------------------------- *)

NoResult == [t |-> "none"]

Init ==
  /\ pc = "idle"
  /\ op = "none"
  /\ target = NilV
  /\ args = <<>>
  /\ result = NoResult
  /\ calls = <<>>

\* one call of a primitive: the operands, its outcome and the methods invoked
Called(name, t, as, r) ==
  /\ pc' = "done"
  /\ op' = name
  /\ target' = t
  /\ args' = as
  /\ result' = r.out
  /\ calls' = r.calls

CallApply ==
  /\ pc = "idle"
  /\ \E f \in Values, as \in ArgLists : Called("Apply", f, as, Apply(f, as))

CallFind ==
  /\ pc = "idle"
  /\ \E o \in Values, sel \in Selectors : Called("Find", o, <<sel>>, Find(o, sel))

CallAt ==
  /\ pc = "idle"
  /\ \E o \in Values, sel \in Selectors : Called("At", o, <<sel>>, At(o, sel))

CallSend ==
  /\ pc = "idle"
  /\ \E r \in Values, m \in Messages : Called("Send", r, m, Send(r, m))

CallEqual ==
  /\ pc = "idle"
  /\ \E one \in Values, two \in Values : Called("Equal", one, <<two>>, Equal(one, two))

CallEqualNonComparable ==
  /\ pc = "idle"
  /\ \E one \in Values, two \in Values :
       Called("EqualNonComparable", one, <<two>>, EqualNonComparable(one, two))

CallCompare ==
  /\ pc = "idle"
  /\ \E one \in Values, two \in Values : Called("Compare", one, <<two>>, Compare(one, two))

\* Compose(fns...) and the application of the function it returns to x
CallCompose ==
  /\ pc = "idle"
  /\ \E fns \in ComposeLists, x \in ComposeInputs :
       Called("Compose", Compose(fns), <<x>>, Apply(Compose(fns), <<x>>))

\* the call has returned (or panicked) and the caller makes the next one
Return ==
  /\ pc = "done"
  /\ pc' = "idle"
  /\ op' = "none"
  /\ target' = NilV
  /\ args' = <<>>
  /\ result' = NoResult
  /\ calls' = <<>>

Next ==
  \/ CallApply
  \/ CallFind
  \/ CallAt
  \/ CallSend
  \/ CallEqual
  \/ CallEqualNonComparable
  \/ CallCompare
  \/ CallCompose
  \/ Return

Spec == Init /\ [][Next]_vars

(* ------------------------------ properties ----------------------------- *)

InCall(name) == pc = "done" /\ op = name

\* the call invoked exactly one capability method: method of recv, with as
Consulted(method, recv, as) == calls = <<Invoke(method, recv, as)>>

\* C1: at each of the five primitives an operand that implements the
\* primitive's capability interface has its method invoked, and the answer of
\* that method is the result of the call; no native path decides it.
C1_OverrideFirst ==
  /\ (InCall("Apply") /\ Implements(target, "Applier")) =>
       Consulted("Apply", target, args) /\ result = Ret(ApplierApply(target, args))
  /\ (InCall("Find") /\ Implements(target, "Finder")) =>
       Consulted("Find", target, args) /\ result = FinderFind(target, args[1])
  /\ (InCall("At") /\ Implements(target, "Finder")) =>
       Consulted("Find", target, args) /\ result = Ret(FinderFind(target, args[1]).v)
  /\ (InCall("Send") /\ Implements(target, "MessageReceiver")) =>
       Consulted("Receive", target, args) /\ result = Ret(ReceiverReceive(target, args))
  /\ ((InCall("Equal") \/ InCall("EqualNonComparable")) /\ Implements(target, "Equaler")) =>
       Consulted("Equal", target, args) /\ result = RetBool(EqualerEqual(target, args[1]))
  /\ ( /\ InCall("Equal") \/ InCall("EqualNonComparable")
       /\ ~Implements(target, "Equaler")
       /\ Implements(args[1], "Equaler") ) =>
       Consulted("Equal", args[1], <<target>>) /\ result = RetBool(EqualerEqual(args[1], target))
  /\ (InCall("Compare") /\ Implements(target, "Comparer")) =>
       Consulted("Compare", target, args) /\ result = RetInt(ComparerCompare(target, args[1]))

\* the outcome the claim C2 gives a call whose function returned outs
Normalized(outs) ==
  /\ result.t = "ret"
  /\ Len(outs) = 0 => result.v = NilV
  /\ Len(outs) = 1 => result.v = outs[1]
  /\ Len(outs) >= 2 =>
       /\ result.v.ty = "Tuple"
       /\ Len(result.v.elems) = Len(outs)
       /\ \A i \in 1..Len(outs) : At(result.v, IntV("int", i - 1)).out = Ret(outs[i])

\* C2: Apply on a plain function (not an Applier) with an argument list the
\* function accepts returns nil when the function returns nothing, the value
\* itself when it returns one value, and a Tuple of its k values, in order,
\* when it returns k >= 2 values.
C2_ApplyNormalizes ==
  ( /\ InCall("Apply")
    /\ target.k = "func"
    /\ ~Implements(target, "Applier")
    /\ CallAccepts(target.fid, args) ) =>
    Normalized(FuncBody(target.fid, args))

\* C3: Apply on a slice, map or struct that is not an Applier, with at least
\* one argument, has the outcome of At(target, args[0]); later arguments do
\* not matter.
C3_ApplyIsAt ==
  ( /\ InCall("Apply")
    /\ ~Implements(target, "Applier")
    /\ target.k \in {"slice", "map", "struct"}
    /\ args # <<>> ) =>
    result = At(target, args[1]).out

\* the message's selector is a string that names no method of the receiver
Unresolvable(rcvr, message) ==
  /\ message # <<>>
  /\ ~IsNil(message[1])
  /\ message[1].ty = "string"
  /\ IsNil(rcvr) \/ \A mt \in rcvr.ov.meth : mt.name # message[1].s

\* C4: Send to a receiver that is not a MessageReceiver, with a string
\* selector naming no method of it, panics with ErrDoesNotUnderstand carrying
\* the receiver and the whole message.
C4_DoesNotUnderstand ==
  ( /\ InCall("Send")
    /\ ~Implements(target, "MessageReceiver")
    /\ Unresolvable(target, args) ) =>
    result = Panic(DoesNotUnderstand(target, args))

\* C5: Find on a native slice with an int selector i returns (element i, true)
\* when 0 <= i < len and (nil, false) otherwise, negative i included; a field
\* position or field name a struct does not have, and a key a map does not
\* hold, give (nil, false) as well.  None of these calls panics.
C5_FindNeverFails ==
  ( /\ InCall("Find")
    /\ ~Implements(target, "Finder")
    /\ ~IsNil(args[1]) ) =>
    /\ (target.k = "slice" /\ args[1].ty = "int") =>
         result = IF args[1].n \in 0..(Len(target.elems) - 1)
                  THEN RetFind(target.elems[args[1].n + 1], TRUE)
                  ELSE RetFind(NilV, FALSE)
    /\ ( /\ target.k = "struct"
         /\ args[1].ty = "int"
         /\ args[1].n \notin 0..(Len(target.fields) - 1) ) =>
         result = RetFind(NilV, FALSE)
    /\ ( /\ target.k = "struct"
         /\ args[1].ty = "string"
         /\ \A i \in 1..Len(target.fields) : target.fields[i].name # args[1].s ) =>
         result = RetFind(NilV, FALSE)
    /\ ( /\ target.k = "map"
         /\ args[1].ty = "string"
         /\ args[1] \notin DOMAIN target.m ) =>
         result = RetFind(NilV, FALSE)

\* a native slice was asked for a negative index and answered not found
C5_Witness ==
  /\ InCall("Find")
  /\ ~Implements(target, "Finder")
  /\ target.k = "slice"
  /\ Len(target.elems) > 0
  /\ args[1] = IntV("int", 0 - 1)
  /\ result = RetFind(NilV, FALSE)

\* C6 as claimed: whenever Find returns, At returns Find's value when found
\* and nil when not found.
C6_AtNilWhenNotFound ==
  (InCall("At") /\ Find(target, args[1]).out.t = "ret") =>
    LET f == Find(target, args[1]).out IN
    result = IF f.ok THEN Ret(f.v) ELSE Ret(NilV)

\* C6 amended: whenever Find returns, At returns and its value is the value
\* component of Find whatever the found flag says; that value is nil when a
\* native container (not a Finder) reports not found.
C6_AtIsFindValue ==
  (InCall("At") /\ Find(target, args[1]).out.t = "ret") =>
    LET f == Find(target, args[1]).out IN
    /\ result = Ret(f.v)
    /\ (~Implements(target, "Finder") /\ ~f.ok) => result = Ret(NilV)

\* At on a Finder that answered a value together with found = false
C6_Witness ==
  /\ InCall("At")
  /\ Implements(target, "Finder")
  /\ ~target.ov.findOk
  /\ target.ov.findAns # NilV
  /\ result = Ret(target.ov.findAns)

\* C7: Equal(a, b) is a.Equal(b) when a is an Equaler, and then b is not
\* asked; otherwise b.Equal(a) when b is an Equaler; otherwise Go's == on a
\* and b, with no Equaler asked.
C7_EqualDispatch ==
  InCall("Equal") =>
    IF Implements(target, "Equaler")
    THEN /\ Consulted("Equal", target, args)
         /\ result = RetBool(EqualerEqual(target, args[1]))
    ELSE IF Implements(args[1], "Equaler")
    THEN /\ Consulted("Equal", args[1], <<target>>)
         /\ result = RetBool(EqualerEqual(args[1], target))
    ELSE /\ calls = <<>>
         /\ IF IfaceEq(target, args[1]) = "panic"
            THEN result.t = "panic"
            ELSE result = RetBool(IfaceEq(target, args[1]) = "true")

\* both operands are Equalers that answer differently, and the left one decided
C7_Witness ==
  /\ InCall("Equal")
  /\ Implements(target, "Equaler")
  /\ Implements(args[1], "Equaler")
  /\ target.ov.eqAns # args[1].ov.eqAns
  /\ result = RetBool(target.ov.eqAns)

\* C8: EqualNonComparable(a, b) is Equal(a, b) whenever a or b is an Equaler
\* (the Equaler is asked whatever the comparability of the operands); with no
\* Equaler it is false when an operand's type is not comparable, and
\* Equal(a, b) otherwise.
C8_EqualerBypassesCheck ==
  InCall("EqualNonComparable") =>
    IF Implements(target, "Equaler") \/ Implements(args[1], "Equaler")
    THEN result = Equal(target, args[1]).out /\ calls = Equal(target, args[1]).calls
    ELSE IF \/ ~IsNil(target) /\ ~Comparable(target)
            \/ ~IsNil(args[1]) /\ ~Comparable(args[1])
    THEN result = RetBool(FALSE)
    ELSE result = Equal(target, args[1]).out

\* the built-in integer and string types of the universe
OrderedTypes == {"int", "uint8", "string"}

C10_CompareSign ==
  (InCall("Compare") /\ result.t = "ret") => result.n \in {0 - 1, 0, 1}

\* C10 amended: whenever Compare returns, the value is -1, 0 or 1 unless the
\* first operand is a Comparer compared with a present operand it is not
\* identical to; then the value is the int its Compare method returned.
C10_CompareSignOrAnswer ==
  (InCall("Compare") /\ result.t = "ret") =>
    IF Implements(target, "Comparer") /\ target # args[1] /\ ~IsNil(args[1])
    THEN result.n = ComparerCompare(target, args[1])
    ELSE result.n \in {0 - 1, 0, 1}

\* a Comparer answered 2 and Compare returned 2
C10_Witness ==
  /\ InCall("Compare")
  /\ Implements(target, "Comparer")
  /\ target.ov.cmpAns = 2
  /\ result = RetInt(2)

\* the functions a function returned by Compose was made from
FnsOf(g) == IF g.fid = "composed" THEN g.fns ELSE <<>>

\* v is itself a function returned by Compose
IsComposed(v) == ~IsNil(v) /\ v.k = "func" /\ v.fid \in {"composed", "identity"}

\* the stages right to left through Apply: the last function of fns is
\* applied to as, and what it returns is the single argument of the function
\* before it, or its arguments when it is a Tuple
RECURSIVE Pipeline(_, _)
Pipeline(fns, as) ==
  LET r == Apply(fns[Len(fns)], as).out IN
  IF Len(fns) = 1 \/ r.t = "panic" THEN r
  ELSE Pipeline(SubSeq(fns, 1, Len(fns) - 1), IF IsTuple(r.v) THEN r.v.elems ELSE <<r.v>>)

\* C11: the function Compose(f1, ..., fn) returns, applied to x, applies fn
\* to x, then each function to what the one after it returned (as one
\* argument, or spread when that is a Tuple), and returns what f1 returned;
\* for no functions it returns x.
C11_ComposePipeline ==
  (InCall("Compose") /\ \A i \in 1..Len(FnsOf(target)) : ~IsComposed(FnsOf(target)[i])) =>
    result = IF FnsOf(target) = <<>> THEN Ret(args[1])
             ELSE Pipeline(FnsOf(target), args)

\* what is reached from v by following pointers until there is none to follow
RECURSIVE Pointee(_)
Pointee(v) == IF v.k = "ptr" THEN Pointee(v.elem) ELSE v

RECURSIVE Flatten(_)
Flatten(fns) ==
  IF fns = <<>> THEN <<>>
  ELSE (IF IsComposed(fns[1]) THEN Flatten(FnsOf(fns[1])) ELSE <<fns[1]>>) \o Flatten(Tail(fns))

\* the same value returned, or a failure in both
SameOutcome(a, b) == a.t = b.t /\ (a.t = "ret" => a = b)

\* C13: a composition with a composition among its functions, applied to x,
\* gives what the flat composition of the same functions in the same order
\* gives: the same value, or a failure when that one fails.
C13_NestingInsensitive ==
  (InCall("Compose") /\ \E i \in 1..Len(FnsOf(target)) : IsComposed(FnsOf(target)[i])) =>
    SameOutcome(result, Apply(Compose(Flatten(FnsOf(target))), args).out)

====
